---- MODULE Spec2Model ----
(***************************************************************************)
(* A model of convert_to_openelections.py: the text normalizers, the       *)
(* encoding-tolerant reader, the format detector, the three row extractors *)
(* and the batch loop of main.                                             *)
(*                                                                         *)
(* A Python str is a sequence of one-character strings; bytes are a        *)
(* sequence of numbers 0..255.  A CSV row is the list of cells csv.reader  *)
(* yields for it; a pipe line is the list raw.split("|") yields for it.    *)
(* The characters of the model are those of Ascii below, and one token per *)
(* code point outside it; no cell of a row holds a line break.             *)
(* Grave stands for the grave accent character.                            *)
(***************************************************************************)
EXTENDS Integers, Sequences, FiniteSets, TLC

VARIABLES
    raw, county,             \* a raw county string, and normalize_county of it
    fmt, fieldnames,         \* the format of the file an extractor reads, its header
    office, candidates,      \* convert_csv_style_file: the current office and candidates
    rows_out,                \* the rows the extractor has produced
    consumed,                \* the rows of the file it has read
    data_dir,                \* main: the files of the data directory
    input_paths,             \* main: the sorted input files still to convert
    outputs,                 \* the output files written: path -> rows
    pc,                      \* where the running function stands
    raised,                  \* the exception that ended main, "none" when none did
    ran                      \* main: the convert_file calls made: the file, the extractors run

countyVars  == <<raw, county>>
extractVars == <<fmt, fieldnames, office, candidates, rows_out, consumed>>
mainVars    == <<data_dir, input_paths, outputs, pc, raised, ran>>
vars        == <<raw, county, fmt, fieldnames, office, candidates, rows_out, consumed,
                 data_dir, input_paths, outputs, pc, raised, ran>>

(***************************************************************************)
(* Bounds of the model.                                                    *)
(***************************************************************************)
MaxSuffix == 2      \* suffixes appended to a county base name
MaxRows   == 3      \* rows (lines) of an input file an extractor reads
MaxFiles  == 2      \* input files the directory holds

(***************************************************************************)
(* Python str.                                                             *)
(***************************************************************************)
\* The apostrophe, and the grave accent (U+0060), which no TLA+ string literal
\* can hold alone: it is written as this token.
Apostrophe == "'"
Grave      == "GRAVE ACCENT"

\* The characters of the model, in code point order, and their code points.
Ascii ==
    <<"\t", "\n", "\r", " ", "\"", Apostrophe, "(", ")", "+", ",", "-", ".", "/",
      "0", "1", "2", "3", "4", "5", "6", "7", "8", "9",
      "A", "B", "C", "D", "E", "F", "G", "H", "I", "J", "K", "L", "M",
      "N", "O", "P", "Q", "R", "S", "T", "U", "V", "W", "X", "Y", "Z",
      "\\", "_", Grave,
      "a", "b", "c", "d", "e", "f", "g", "h", "i", "j", "k", "l", "m",
      "n", "o", "p", "q", "r", "s", "t", "u", "v", "w", "x", "y", "z", "|">>

AsciiCodes ==
    <<9, 10, 13, 32, 34, 39, 40, 41, 43, 44, 45, 46, 47,
      48, 49, 50, 51, 52, 53, 54, 55, 56, 57,
      65, 66, 67, 68, 69, 70, 71, 72, 73, 74, 75, 76, 77,
      78, 79, 80, 81, 82, 83, 84, 85, 86, 87, 88, 89, 90,
      92, 95, 96,
      97, 98, 99, 100, 101, 102, 103, 104, 105, 106, 107, 108, 109,
      110, 111, 112, 113, 114, 115, 116, 117, 118, 119, 120, 121, 122, 124>>

Ord(c) == CHOOSE i \in 1..Len(Ascii) : Ascii[i] = c

Whitespace == {" ", "\t", "\n", "\r"}
Digits     == {"0", "1", "2", "3", "4", "5", "6", "7", "8", "9"}
Quote      == {"\""}

IsUpper(c) == Ord(c) >= Ord("A") /\ Ord(c) <= Ord("Z")
IsLower(c) == Ord(c) >= Ord("a") /\ Ord(c) <= Ord("z")

LowerChar(c) == IF IsUpper(c) THEN Ascii[Ord(c) - Ord("A") + Ord("a")] ELSE c
UpperChar(c) == IF IsLower(c) THEN Ascii[Ord(c) - Ord("a") + Ord("A")] ELSE c

Lower(s) == [i \in 1..Len(s) |-> LowerChar(s[i])]
Upper(s) == [i \in 1..Len(s) |-> UpperChar(s[i])]

\* F(e), with e evaluated once and F applied to its value.
Let(e, F(_)) == CHOOSE r \in {F(x) : x \in {e}} : TRUE

RECURSIVE LStrip(_, _)
LStrip(s, cs) == IF s # <<>> /\ Head(s) \in cs THEN LStrip(Tail(s), cs) ELSE s

RECURSIVE RStrip(_, _)
RStrip(s, cs) ==
    IF s # <<>> /\ s[Len(s)] \in cs THEN RStrip(SubSeq(s, 1, Len(s) - 1), cs) ELSE s

\* s.strip(chars)
StripChars(s, cs) == RStrip(LStrip(s, cs), cs)

\* s.strip()
Strip(s) == StripChars(s, Whitespace)

\* s.strip(<a double quote>)
StripQuotes(s) == StripChars(s, Quote)

StartsWith(s, p) == Len(s) >= Len(p) /\ SubSeq(s, 1, Len(p)) = p
EndsWith(s, p)   == Len(s) >= Len(p) /\ SubSeq(s, Len(s) - Len(p) + 1, Len(s)) = p

\* p in s
Contains(s, p) == \E i \in 1..(Len(s) - Len(p) + 1) : SubSeq(s, i, i + Len(p) - 1) = p

\* s.replace(a, b) for single characters a, b
ReplaceChar(s, a, b) == [i \in 1..Len(s) |-> IF s[i] = a THEN b ELSE s[i]]

\* re.sub(r"\s+", " ", s)
RECURSIVE CollapseSpaces(_)
CollapseSpaces(s) ==
    IF s = <<>> THEN <<>>
    ELSE IF Head(s) \in Whitespace
         THEN <<" ">> \o CollapseSpaces(LStrip(s, Whitespace))
         ELSE <<Head(s)>> \o CollapseSpaces(Tail(s))

\* " ".join(parts)
RECURSIVE JoinSpace(_)
JoinSpace(parts) ==
    IF parts = <<>> THEN <<>>
    ELSE IF Len(parts) = 1 THEN parts[1]
    ELSE parts[1] \o <<" ">> \o JoinSpace(Tail(parts))

\* s.zfill(2)
ZFill2(s) ==
    IF Len(s) >= 2 THEN s
    ELSE IF s # <<>> /\ s[1] \in {"+", "-"} THEN <<s[1], "0">>
    ELSE IF Len(s) = 1 THEN <<"0">> \o s
    ELSE <<"0", "0">>

\* Lexicographic order of str, by code point.
RECURSIVE StrLess(_, _)
StrLess(a, b) ==
    IF b = <<>> THEN FALSE
    ELSE IF a = <<>> THEN TRUE
    ELSE IF Head(a) = Head(b) THEN StrLess(Tail(a), Tail(b))
    ELSE Ord(Head(a)) < Ord(Head(b))

(***************************************************************************)
(* int(text): optional surrounding whitespace, an optional sign, decimal   *)
(* digits with single underscores allowed between them.  PyInt returns     *)
(* [ok, val]; ok = FALSE stands for ValueError.                            *)
(***************************************************************************)
DigitVal(c) == Ord(c) - Ord("0")

RECURSIVE DigitsValue(_, _)
DigitsValue(s, acc) ==
    IF s = <<>> THEN acc
    ELSE IF Head(s) = "_" THEN DigitsValue(Tail(s), acc)
    ELSE DigitsValue(Tail(s), 10 * acc + DigitVal(Head(s)))

PyInt(text) ==
    LET t    == Strip(text)
        neg  == t # <<>> /\ t[1] = "-"
        body == IF t # <<>> /\ t[1] \in {"+", "-"} THEN Tail(t) ELSE t
        wellFormed ==
            /\ body # <<>>
            /\ \A i \in 1..Len(body) : body[i] \in Digits \cup {"_"}
            /\ body[1] \in Digits
            /\ body[Len(body)] \in Digits
            /\ \A i \in 1..(Len(body) - 1) : ~(body[i] = "_" /\ body[i + 1] = "_")
    IN  IF wellFormed
        THEN [ok |-> TRUE, val |-> IF neg THEN 0 - DigitsValue(body, 0) ELSE DigitsValue(body, 0)]
        ELSE [ok |-> FALSE, val |-> 0]

(***************************************************************************)
(* The lookup tables.                                                      *)
(***************************************************************************)
\* dict.get(key, default) over a table given as a sequence of <<key, value>>
TableGet(table, key, default) ==
    IF \E i \in 1..Len(table) : table[i][1] = key
    THEN table[CHOOSE i \in 1..Len(table) : table[i][1] = key][2]
    ELSE default

YEAR_TO_ELECTION_DATE ==
    <<
      <<1986, <<"1","9","8","6","1","1","0","4">>>>, <<1988, <<"1","9","8","8","1","1","0","8">>>>, <<1990, <<"1","9","9","0","1","1","0","6">>>>,
      <<1992, <<"1","9","9","2","1","1","0","3">>>>, <<1994, <<"1","9","9","4","1","1","0","8">>>>, <<1996, <<"1","9","9","6","1","1","0","5">>>>,
      <<1998, <<"1","9","9","8","1","1","0","3">>>>, <<2000, <<"2","0","0","0","1","1","0","7">>>>, <<2002, <<"2","0","0","2","1","1","0","5">>>>,
      <<2012, <<"2","0","1","2","1","1","0","6">>>>, <<2014, <<"2","0","1","4","1","1","0","4">>>>, <<2016, <<"2","0","1","6","1","1","0","8">>>>,
      <<2018, <<"2","0","1","8","1","1","0","6">>>>, <<2020, <<"2","0","2","0","1","1","0","3">>>>, <<2022, <<"2","0","2","2","1","1","0","8">>>>,
      <<2024, <<"2","0","2","4","1","1","0","5">>>>
    >>

OFFICE_CLEANUPS ==
    <<
      <<<<"P","r","e","s","i","d","e","n","t"," ","a","n","d"," ","V","i","c","e"," ","P","r","e","s","i","d","e","n","t"," ","o","f"," ","t","h","e"," ","U","n","i","t","e","d"," ","S","t","a","t","e","s">>, <<"P","r","e","s","i","d","e","n","t">>>>,
      <<<<"P","r","e","s","i","d","e","n","t"," ","/"," ","V","i","c","e"," ","P","r","e","s","i","d","e","n","t">>, <<"P","r","e","s","i","d","e","n","t">>>>,
      <<<<"P","r","e","s","i","d","e","n","t"," ","-"," ","V","i","c","e"," ","P","r","e","s">>, <<"P","r","e","s","i","d","e","n","t">>>>,
      <<<<"G","o","v","e","r","n","o","r"," ","/"," ","L","t","."," ","G","o","v","e","r","n","o","r">>, <<"G","o","v","e","r","n","o","r">>>>
    >>

COUNTY_FIXES ==
    <<
      <<<<"P","r","i","n","c","e"," ","G","e","o","r","g","e",Grave,"s">>, <<"P","r","i","n","c","e"," ","G","e","o","r","g","e",Apostrophe,"s">>>>,
      <<<<"Q","u","e","e","n"," ","A","n","n","e",Grave,"s">>, <<"Q","u","e","e","n"," ","A","n","n","e",Apostrophe,"s">>>>,
      <<<<"S","t","."," ","M","a","r","y",Grave,"s">>, <<"S","t","."," ","M","a","r","y",Apostrophe,"s">>>>
    >>

COUNTY_CODE_TO_NAME ==
    <<
      <<<<"0","1">>, <<"A","l","l","e","g","a","n","y">>>>, <<<<"0","2">>, <<"A","n","n","e"," ","A","r","u","n","d","e","l">>>>, <<<<"0","3">>, <<"B","a","l","t","i","m","o","r","e"," ","C","i","t","y">>>>,
      <<<<"0","4">>, <<"B","a","l","t","i","m","o","r","e">>>>, <<<<"0","5">>, <<"C","a","l","v","e","r","t">>>>, <<<<"0","6">>, <<"C","a","r","o","l","i","n","e">>>>,
      <<<<"0","7">>, <<"C","a","r","r","o","l","l">>>>, <<<<"0","8">>, <<"C","e","c","i","l">>>>, <<<<"0","9">>, <<"C","h","a","r","l","e","s">>>>,
      <<<<"1","0">>, <<"D","o","r","c","h","e","s","t","e","r">>>>, <<<<"1","1">>, <<"F","r","e","d","e","r","i","c","k">>>>, <<<<"1","2">>, <<"G","a","r","r","e","t","t">>>>,
      <<<<"1","3">>, <<"H","a","r","f","o","r","d">>>>, <<<<"1","4">>, <<"H","o","w","a","r","d">>>>, <<<<"1","5">>, <<"K","e","n","t">>>>,
      <<<<"1","6">>, <<"M","o","n","t","g","o","m","e","r","y">>>>, <<<<"1","7">>, <<"P","r","i","n","c","e"," ","G","e","o","r","g","e",Apostrophe,"s">>>>, <<<<"1","8">>, <<"Q","u","e","e","n"," ","A","n","n","e",Apostrophe,"s">>>>,
      <<<<"1","9">>, <<"S","t","."," ","M","a","r","y",Apostrophe,"s">>>>, <<<<"2","0">>, <<"S","o","m","e","r","s","e","t">>>>, <<<<"2","1">>, <<"T","a","l","b","o","t">>>>,
      <<<<"2","2">>, <<"W","a","s","h","i","n","g","t","o","n">>>>, <<<<"2","3">>, <<"W","i","c","o","m","i","c","o">>>>, <<<<"2","4">>, <<"W","o","r","c","e","s","t","e","r">>>>
    >>

(***************************************************************************)
(* The text normalizers.                                                   *)
(***************************************************************************)
\* The least j with s[j] = "-" followed by \s* and then pat, ignoring case;
\* 0 when there is none.  The leftmost match of \s*-\s*pat starts at the
\* whitespace run that ends at j - 1.
DashClauseAt(s, j, pat) ==
    /\ s[j] = "-"
    /\ StartsWith(Lower(LStrip(SubSeq(s, j + 1, Len(s)), Whitespace)), Lower(pat))

\* re.sub(r"\s*-\s*<pat>.*$", "", s, flags=re.I)
SubDashClause(s, pat) ==
    IF \E j \in 1..Len(s) : DashClauseAt(s, j, pat)
    THEN LET j == CHOOSE k \in 1..Len(s) :
                      /\ DashClauseAt(s, k, pat)
                      /\ \A m \in 1..(k - 1) : ~DashClauseAt(s, m, pat)
         IN  RStrip(SubSeq(s, 1, j - 1), Whitespace)
    ELSE s

normalize_office(text) ==
    LET o1 == StripQuotes(Strip(text))
        o2 == SubDashClause(o1, <<"V","o","t","e"," ","F","o","r">>)
        o3 == SubDashClause(o2, <<"(","V","o","t","e"," ","f","o","r">>)
        o4 == StripChars(o3, {" ", "-"})
    IN  TableGet(OFFICE_CLEANUPS, o4, o4)

\* re.search(r"\(([^()]*)\)\s*$", text): the index of the "(" of the match, 0 when
\* there is none.
TrailingGroupStart(text) ==
    LET t == RStrip(text, Whitespace)
    IN  IF t # <<>> /\ t[Len(t)] = ")"
           /\ \E i \in 1..(Len(t) - 1) :
                  /\ t[i] = "("
                  /\ \A k \in (i + 1)..(Len(t) - 1) : t[k] \notin {"(", ")"}
        THEN CHOOSE i \in 1..(Len(t) - 1) :
                  /\ t[i] = "("
                  /\ \A k \in (i + 1)..(Len(t) - 1) : t[k] \notin {"(", ")"}
        ELSE 0

parse_candidate(cell) ==
    LET t0     == StripQuotes(Strip(cell))
        win    == EndsWith(t0, <<" ","W","i","n","n","e","r">>)
        text   == IF win THEN RStrip(SubSeq(t0, 1, Len(t0) - 7), Whitespace) ELSE t0
        start  == TrailingGroupStart(text)
        close  == Len(RStrip(text, Whitespace))
        party0 == IF start > 0 THEN Strip(SubSeq(text, start + 1, close - 1)) ELSE <<>>
        cand0  == IF start > 0 THEN Strip(SubSeq(text, 1, start - 1)) ELSE text
    IN  [candidate |-> Strip(CollapseSpaces(cand0)),
         party     |-> Strip(CollapseSpaces(party0)),
         winner    |-> IF win THEN <<"T","R","U","E">> ELSE <<>>]

\* re.sub(r"\s+<word>$", repl, s, flags=re.I)
SubTrailingWord(s, word, repl) ==
    LET n == Len(s) - Len(word)
    IN  IF n >= 1 /\ Lower(SubSeq(s, n + 1, Len(s))) = Lower(word) /\ s[n] \in Whitespace
        THEN RStrip(SubSeq(s, 1, n), Whitespace) \o repl
        ELSE s

normalize_county(text) ==
    LET c1 == Strip(StripQuotes(Strip(text)))
        c2 == SubTrailingWord(c1, <<"C","o","u","n","t","y">>, <<>>)
        c3 == SubTrailingWord(c2, <<"c","i","t","y">>, <<" ","C","i","t","y">>)
        c4 == TableGet(COUNTY_FIXES, c3, c3)
    IN  ReplaceChar(c4, Grave, Apostrophe)

(***************************************************************************)
(* The row extractors.  An output row is a record of the eight output     *)
(* columns; votes is an integer, every other field a str.                  *)
(***************************************************************************)
OutRow(c, p, o, d, pa, ca, v, w) ==
    [county |-> c, precinct |-> p, office |-> o, district |-> d,
     party |-> pa, candidate |-> ca, votes |-> v, winner |-> w]

\* s.replace(",", "")
RemoveCommas(s) == SelectSeq(s, LAMBDA c : c # ",")

\* None and a str, where a value can be either (office, row.get)
None == [isNone |-> TRUE, str |-> <<>>]
Str(s) == [isNone |-> FALSE, str |-> s]

\* bool(office)
Truthy(o) == ~o.isNone /\ o.str # <<>>

VoteForMarkers ==
    {<<"V","o","t","e"," ","F","o","r">>, <<"V","o","t","e"," ","f","o","r">>, <<"V","o","t","e"," ","F","o","r"," ","O","n","e">>, <<"V","o","t","e"," ","F","o","r"," ","O","n","e"," ","P","a","i","r">>, <<"V","o","t","e"," ","f","o","r"," ","O","n","e"," ","P","a","i","r">>}

\* The candidates of a header row: its cells after the first, in order, without the
\* blank cells and the cells whose candidate name is empty.
RECURSIVE header_candidates(_)
header_candidates(cells) ==
    IF cells = <<>> THEN <<>>
    ELSE LET cell == Strip(Head(cells))
             p    == parse_candidate(cell)
         IN  (IF cell # <<>> /\ p.candidate # <<>> THEN <<p>> ELSE <<>>)
                 \o header_candidates(Tail(cells))

\* The output rows of one county row: for idx, candidate in enumerate(candidates, start=1),
\* the row of candidates[idx] with the votes of row[idx] (0-based: cell idx + 1 here).
RECURSIVE county_rows(_, _, _, _, _)
county_rows(cnty, off, cands, row, idx) ==
    IF idx > Len(cands) THEN <<>>
    ELSE LET vote_cell == IF idx >= Len(row) THEN <<>> ELSE StripQuotes(Strip(row[idx + 1]))
             parsed    == PyInt(RemoveCommas(vote_cell))
             emitted   ==
                 IF idx >= Len(row) \/ vote_cell = <<>> \/ ~parsed.ok THEN <<>>
                 ELSE <<OutRow(cnty, <<>>, off, <<>>, cands[idx].party,
                               cands[idx].candidate, parsed.val, cands[idx].winner)>>
         IN  emitted \o county_rows(cnty, off, cands, row, idx + 1)

\* A variant of csv_style_row whose marker row sets the office and keeps the
\* candidates of the block before it.
csv_style_row_keeping_candidates(st, csvrow) ==
    LET row   == [i \in 1..Len(csvrow) |-> Strip(csvrow[i])]
        first == Strip(StripQuotes(row[1]))
        others == Cardinality({i \in 2..Len(row) : row[i] # <<>>})
    IN  IF \A i \in 1..Len(row) : row[i] = <<>>
        THEN st
        ELSE IF first # <<>> /\ others <= 1 /\ \E m \in VoteForMarkers : Contains(first, m)
        THEN [st EXCEPT !.office = Str(normalize_office(first))]
        ELSE IF first = <<>> /\ Truthy(st.office)
        THEN [st EXCEPT !.candidates = header_candidates(Tail(row))]
        ELSE IF Truthy(st.office) /\ st.candidates # <<>> /\ first # <<>>
        THEN [st EXCEPT !.rows_out =
                 @ \o county_rows(normalize_county(first), st.office.str, st.candidates, row, 1)]
        ELSE st

\* The body of the loop of convert_csv_style_file: st = [office, candidates, rows_out].
csv_style_row(st, csvrow) ==
    LET row   == [i \in 1..Len(csvrow) |-> Strip(csvrow[i])]
        first == Strip(StripQuotes(row[1]))
        others == Cardinality({i \in 2..Len(row) : row[i] # <<>>})
    IN  IF \A i \in 1..Len(row) : row[i] = <<>>
        THEN st
        ELSE IF first # <<>> /\ others <= 1 /\ \E m \in VoteForMarkers : Contains(first, m)
        THEN [st EXCEPT !.office = Str(normalize_office(first)), !.candidates = <<>>]
        ELSE IF first = <<>> /\ Truthy(st.office)
        THEN [st EXCEPT !.candidates = header_candidates(Tail(row))]
        ELSE IF Truthy(st.office) /\ st.candidates # <<>> /\ first # <<>>
        THEN [st EXCEPT !.rows_out =
                 @ \o county_rows(normalize_county(first), st.office.str, st.candidates, row, 1)]
        ELSE st

\* The token of the pipe format for SQL NULL: a backslash and N.
SqlNull == <<"\\", "N">>

\* The body of the loop of convert_pipe_style_file: fields is raw.split("|").
pipe_style_line(rows, fields) ==
    LET parts == [i \in 1..Len(fields) |-> Strip(fields[i])]
    IN  IF Len(parts) = 1 /\ parts[1] = <<>> THEN rows
        ELSE IF Len(parts) < 10 THEN rows
        ELSE
        LET office_raw  == parts[1]
            county_raw  == parts[3]
            last        == parts[4]
            middle      == parts[5]
            first       == parts[6]
            party       == parts[7]
            winner_flag == parts[8]
            votes_raw   == parts[10]
            parsed      == PyInt(RemoveCommas(votes_raw))
            name_parts  == SelectSeq(<<first, middle, last>>,
                                     LAMBDA x : x # <<>> /\ x # SqlNull)
            joined      == Strip(JoinSpace(name_parts))
            named       == IF joined = <<>> THEN <<"U","n","k","n","o","w","n">> ELSE joined
            candidate   == IF Lower(named) = <<"o","t","h","e","r"," ","w","r","i","t","e","-","i","n","s">> \/ Lower(last) = <<"z","z","9","9","8">>
                           THEN <<"O","t","h","e","r"," ","W","r","i","t","e","-","I","n","s">> ELSE named
        IN  IF votes_raw \in {<<>>, SqlNull} \/ ~parsed.ok THEN rows
            ELSE Append(rows,
                     OutRow(normalize_county(county_raw), <<>>, normalize_office(office_raw),
                            <<>>, IF party = SqlNull THEN <<>> ELSE party, candidate,
                            parsed.val, IF winner_flag = <<"1">> THEN <<"T","R","U","E">> ELSE <<>>))

\* parse_int(value): value is None (a cell the row does not have) or a str
parse_int(value) ==
    IF value.isNone THEN 0
    ELSE LET text   == StripQuotes(Strip(value.str))
             parsed == PyInt(RemoveCommas(text))
         IN  IF text = <<>> THEN 0 ELSE IF parsed.ok THEN parsed.val ELSE 0

\* The row csv.DictReader builds is dict(zip(fieldnames, row)), and then None under
\* every field name past the end of a short row: row.get(key) is the value under the
\* last column named key, and None when no column is named key.
DictGet(names, row, key) ==
    LET cols == {i \in 1..Len(names) : names[i] = key}
    IN  IF cols = {} THEN None
        ELSE LET i == CHOOSE k \in cols : \A m \in cols : m <= k
             IN  IF i <= Len(row) THEN Str(row[i]) ELSE None

\* (row.get(key) or "").strip()
GetStripped(names, row, key) ==
    LET v == DictGet(names, row, key) IN IF v.isNone THEN <<>> ELSE Strip(v.str)

\* [c for c in reader.fieldnames if c and "Votes" in c and "Against" not in c]
vote_columns(names) ==
    SelectSeq(names, LAMBDA c : c # <<>> /\ Contains(c, <<"V","o","t","e","s">>) /\ ~Contains(c, <<"A","g","a","i","n","s","t">>))

\* sum(parse_int(row.get(col, "")) for col in vote_columns)
RECURSIVE sum_votes(_, _, _)
sum_votes(names, row, cols) ==
    IF cols = <<>> THEN 0
    ELSE parse_int(DictGet(names, row, Head(cols))) + sum_votes(names, row, Tail(cols))

\* The body of the loop of convert_modern_precinct_csv; DictReader skips the rows
\* that are [] (blank lines).
modern_row(rows, names, row) ==
    IF row = <<>> THEN rows
    ELSE
    LET county_name == GetStripped(names, row, <<"C","o","u","n","t","y"," ","N","a","m","e">>)
        county_code == ZFill2(GetStripped(names, row, <<"C","o","u","n","t","y">>))
        cnty        == normalize_county(
                           IF county_name = <<>>
                           THEN TableGet(COUNTY_CODE_TO_NAME, county_code, county_code)
                           ELSE county_name)
        ep          == GetStripped(names, row, <<"E","l","e","c","t","i","o","n"," ","D","i","s","t","r","i","c","t"," ","-"," ","P","r","e","c","i","n","c","t">>)
        ed          == GetStripped(names, row, <<"E","l","e","c","t","i","o","n"," ","D","i","s","t","r","i","c","t">>)
        pr          == GetStripped(names, row, <<"E","l","e","c","t","i","o","n"," ","P","r","e","c","i","n","c","t">>)
        precinct    == IF ep # <<>> THEN ep
                       ELSE IF ed # <<>> \/ pr # <<>> THEN ed \o <<"-">> \o pr ELSE <<>>
        winner_cell == Upper(GetStripped(names, row, <<"W","i","n","n","e","r">>))
    IN  Append(rows,
            OutRow(cnty, precinct,
                   normalize_office(GetStripped(names, row, <<"O","f","f","i","c","e"," ","N","a","m","e">>)),
                   StripQuotes(GetStripped(names, row, <<"O","f","f","i","c","e"," ","D","i","s","t","r","i","c","t">>)),
                   StripQuotes(GetStripped(names, row, <<"P","a","r","t","y">>)),
                   StripQuotes(GetStripped(names, row, <<"C","a","n","d","i","d","a","t","e"," ","N","a","m","e">>)),
                   sum_votes(names, row, vote_columns(names)),
                   IF winner_cell \in {<<"Y">>, <<"T","R","U","E">>, <<"1">>} THEN <<"T","R","U","E">> ELSE <<>>))

(***************************************************************************)
(* normalize_county applied to a raw county string, and again to its own   *)
(* result.                                                                 *)
(***************************************************************************)
SeqsUpTo(S, n) == UNION {[1..k -> S] : k \in 0..n}

RECURSIVE Flatten(_)
Flatten(ss) == IF ss = <<>> THEN <<>> ELSE Head(ss) \o Flatten(Tail(ss))

CountyBases    == {<<"K","e","n","t">>, <<"B","a","l","t","i","m","o","r","e">>, <<"P","r","i","n","c","e"," ","G","e","o","r","g","e",Grave,"s">>, <<"S","t","."," ","M","a","r","y",Grave,"s">>}
CountySuffixes == {<<" ","C","o","u","n","t","y">>, <<" ","c","i","t","y">>, <<" "," ","C","O","U","N","T","Y">>}
CountyWraps    == {<<>>, <<"\"">>, <<" ">>, <<"\""," ","\"">>}

\* A raw county cell: a base name, at most MaxSuffix suffixes, and a wrapping
\* (quotes, blanks, or quotes around blanks around quotes) on both sides.
CountyInputs ==
    {w \o b \o Flatten(ss) \o w :
        w \in CountyWraps, b \in CountyBases, ss \in SeqsUpTo(CountySuffixes, MaxSuffix)}

NoCounty == [applied |-> 0, once |-> <<>>, twice |-> <<>>]

CountyInit ==
    /\ raw \in CountyInputs
    /\ county = NoCounty
    /\ fmt = "none" /\ fieldnames = <<>> /\ office = None /\ candidates = <<>>
    /\ rows_out = <<>> /\ consumed = <<>>
    /\ data_dir = {} /\ input_paths = <<>> /\ outputs = <<>> /\ pc = "idle" /\ raised = "none" /\ ran = <<>>

\* county = normalize_county(raw)
NormalizeCounty ==
    /\ county.applied = 0
    /\ county' = [applied |-> 1, once |-> normalize_county(raw), twice |-> <<>>]
    /\ UNCHANGED <<raw, extractVars, mainVars>>

\* county = normalize_county(county)
NormalizeCountyAgain ==
    /\ county.applied = 1
    /\ county' = [county EXCEPT !.applied = 2, !.twice = normalize_county(county.once)]
    /\ UNCHANGED <<raw, extractVars, mainVars>>

CountyNext == NormalizeCounty \/ NormalizeCountyAgain

SpecCounty == CountyInit /\ [][CountyNext]_vars

(***************************************************************************)
(* One extractor's pass over one file, row by row.  The rows a file can    *)
(* hold are drawn from the sets below; a file is any sequence of at most   *)
(* MaxRows of them, and it may end after any row.                          *)
(***************************************************************************)
LegacyRows ==
    { <<<<"G","o","v","e","r","n","o","r"," ","-"," ","V","o","t","e"," ","F","o","r"," ","O","n","e">>>>,
      <<<<"\"","C","o","m","p","t","r","o","l","l","e","r"," ","-"," ","(","V","o","t","e"," ","f","o","r"," ","O","n","e",")","\"">>, <<>>, <<"x">>>>,
      <<<<>>, <<"A","l","i","c","e"," ","(","D","E","M",")">>, <<"B","o","b"," ","(","R","E","P",")"," ","W","i","n","n","e","r">>>>,
      <<<<>>, <<>>, <<"C","a","r","o","l"," ","(","G","R","N",")">>>>,
      <<<<" ">>, <<"(","I","N","D",")">>, <<"\"","D","a","v","e","\"">>>>,
      <<<<"S","o","m","e","r","s","e","t"," ","C","o","u","n","t","y">>, <<"1","2","0">>, <<"8","0">>>>,
      <<<<"K","e","n","t">>, <<"-","5">>, <<>>>>,
      <<<<"\"","P","r","i","n","c","e"," ","G","e","o","r","g","e",Grave,"s","\"">>, <<"x">>, <<"1",",","0","0","0">>>>,
      <<<<"V","o","t","e"," ","F","o","r"," ","T","o","t","a","l","s">>, <<"7">>, <<"9">>>>,
      <<<<>>, <<" ">>>>,
      <<>> }

PipeLine(o, c, last, middle, first, party, winner_flag, votes) ==
    <<o, <<"1">>, c, last, middle, first, party, winner_flag, <<"0">>, votes>>

PipeLines ==
    { PipeLine(<<"G","o","v","e","r","n","o","r"," ","-"," ","V","o","t","e"," ","F","o","r"," ","O","n","e">>, <<"K","e","n","t"," ","C","o","u","n","t","y">>, <<"D","o","e">>, SqlNull, <<"J","a","n","e">>, <<"D","E","M">>, <<"1">>, <<"1","2","0">>),
      PipeLine(<<"C","o","m","p","t","r","o","l","l","e","r">>, <<" ","B","a","l","t","i","m","o","r","e"," ","c","i","t","y"," ">>, <<"Z","z","9","9","8">>, <<>>, <<"B","o","b">>, SqlNull, <<"0">>, <<" ","1",",","0","0","0"," ">>),
      PipeLine(<<"C","o","m","p","t","r","o","l","l","e","r">>, <<"K","e","n","t">>, <<"R","o","e">>, <<>>, <<>>, <<"R","E","P">>, <<"0">>, <<"-","5">>),
      PipeLine(<<"\"","G","o","v","e","r","n","o","r","\"">>, <<"\"","K","e","n","t","\"">>, <<>>, <<>>, <<"\"","B","o","b","\"">>, <<"R","E","P">>, <<"0">>, <<"7">>),
      PipeLine(<<"G","o","v","e","r","n","o","r">>, <<"K","e","n","t">>, SqlNull, SqlNull, <<>>, <<"R","E","P">>, <<"0">>, <<"3">>),
      PipeLine(<<"G","o","v","e","r","n","o","r">>, <<"K","e","n","t">>, <<"R","o","e">>, <<>>, <<"A","n","n">>, <<"R","E","P">>, <<"0">>, <<>>),
      PipeLine(<<"G","o","v","e","r","n","o","r">>, <<"K","e","n","t">>, <<"R","o","e">>, <<>>, <<"A","n","n">>, <<"R","E","P">>, <<"0">>, SqlNull),
      PipeLine(<<"G","o","v","e","r","n","o","r">>, <<"K","e","n","t">>, <<"R","o","e">>, <<>>, <<"A","n","n">>, <<"R","E","P">>, <<"0">>, <<"x">>),
      <<<<"G","o","v","e","r","n","o","r">>, <<"1">>, <<"K","e","n","t">>>>,
      <<<<" ">>>> }

ModernHeaders ==
    { <<<<"C","o","u","n","t","y">>, <<"O","f","f","i","c","e"," ","N","a","m","e">>, <<"C","a","n","d","i","d","a","t","e"," ","N","a","m","e">>, <<"W","i","n","n","e","r">>,
        <<"E","l","e","c","t","i","o","n"," ","D","a","y"," ","V","o","t","e","s">>, <<"E","a","r","l","y"," ","V","o","t","e","s">>, <<"P","r","o","v","i","s","i","o","n","a","l"," ","A","g","a","i","n","s","t"," ","V","o","t","e","s">>>>,
      <<<<"C","o","u","n","t","y"," ","N","a","m","e">>, <<"O","f","f","i","c","e"," ","N","a","m","e">>, <<"C","a","n","d","i","d","a","t","e"," ","N","a","m","e">>, <<"E","l","e","c","t","i","o","n"," ","D","i","s","t","r","i","c","t">>,
        <<"E","a","r","l","y"," ","V","o","t","e","s">>, <<"E","a","r","l","y"," ","V","o","t","e","s">>>>,
      <<>> }

ModernRows ==
    { <<<<"1","7">>, <<"G","o","v","e","r","n","o","r"," ","/"," ","L","t","."," ","G","o","v","e","r","n","o","r">>, <<"A","l","i","c","e">>, <<"Y">>, <<"1","0">>, <<"5">>, <<"3">>>>,
      <<<<"3">>, <<"\"","G","o","v","e","r","n","o","r","\"">>, <<"\"","B","o","b","\"">>, <<>>, <<>>, <<"x">>, <<"4">>>>,
      <<<<"K","e","n","t"," ","C","o","u","n","t","y">>, <<"C","o","m","p","t","r","o","l","l","e","r"," ","-"," ","V","o","t","e"," ","F","o","r"," ","O","n","e">>, <<"C","a","r","o","l">>, <<"2">>, <<"5">>, <<"7">>>>,
      <<<<"2","4">>, <<"C","o","m","p","t","r","o","l","l","e","r">>, <<"D","a","v","e">>, <<"n">>, <<"\"","1",",","0","0","0","\"">>, <<"-","3">>>>,
      <<<<"K","e","n","t">>, <<"C","o","m","p","t","r","o","l","l","e","r">>, <<"E","r","i","n">>>>,
      <<<<>>, <<>>, <<>>, <<>>, <<>>, <<>>, <<>>, <<"8">>>>,
      <<>> }

output_path == <<"o","u","t",".","c","s","v">>

\* The variables an extractor's pass leaves alone.
otherVarsE == <<raw, county, data_dir, input_paths, raised, ran>>

St == [office |-> office, candidates |-> candidates, rows_out |-> rows_out]

ExtractInit ==
    /\ fmt \in {"legacy", "pipe", "modern"}
    /\ fieldnames \in (IF fmt = "modern" THEN ModernHeaders ELSE {<<>>})
    /\ office = None
    /\ candidates = <<>>
    /\ rows_out = <<>>
    /\ consumed = <<>>
    /\ outputs = <<>>
    /\ pc = "read"
    /\ raw = <<>> /\ county = NoCounty
    /\ data_dir = {} /\ input_paths = <<>> /\ raised = "none" /\ ran = <<>>

\* convert_csv_style_file reads one more row.
CsvStyleRow ==
    /\ fmt = "legacy" /\ pc = "read" /\ Len(consumed) < MaxRows
    /\ \E row \in LegacyRows :
           LET st == csv_style_row(St, row)
           IN  /\ office' = st.office
               /\ candidates' = st.candidates
               /\ rows_out' = st.rows_out
               /\ consumed' = Append(consumed, row)
    /\ UNCHANGED <<fmt, fieldnames, outputs, pc, otherVarsE>>

\* convert_pipe_style_file reads one more line.
PipeStyleLine ==
    /\ fmt = "pipe" /\ pc = "read" /\ Len(consumed) < MaxRows
    /\ \E line \in PipeLines :
           /\ rows_out' = pipe_style_line(rows_out, line)
           /\ consumed' = Append(consumed, line)
    /\ UNCHANGED <<fmt, fieldnames, office, candidates, outputs, pc, otherVarsE>>

\* convert_modern_precinct_csv finds no header row and returns 0, writing nothing.
ModernNoHeader ==
    /\ fmt = "modern" /\ pc = "read" /\ fieldnames = <<>>
    /\ pc' = "returned"
    /\ UNCHANGED <<fmt, fieldnames, office, candidates, rows_out, consumed, outputs, otherVarsE>>

\* convert_modern_precinct_csv reads one more row.
ModernRow ==
    /\ fmt = "modern" /\ pc = "read" /\ fieldnames # <<>> /\ Len(consumed) < MaxRows
    /\ \E row \in ModernRows :
           /\ rows_out' = modern_row(rows_out, fieldnames, row)
           /\ consumed' = Append(consumed, row)
    /\ UNCHANGED <<fmt, fieldnames, office, candidates, outputs, pc, otherVarsE>>

\* The end of the file: the extractor writes rows_out to output_path.
WriteRows ==
    /\ pc = "read"
    /\ fmt = "modern" => fieldnames # <<>>
    /\ outputs' = (output_path :> rows_out) @@ outputs
    /\ pc' = "written"
    /\ UNCHANGED <<fmt, fieldnames, office, candidates, rows_out, consumed, otherVarsE>>

ExtractNext == CsvStyleRow \/ PipeStyleLine \/ ModernNoHeader \/ ModernRow \/ WriteRows

SpecExtract == ExtractInit /\ [][ExtractNext]_vars

(***************************************************************************)
(* bytes, and the three codecs of read_text_with_fallback.  A decoder      *)
(* returns [ok, text]; ok = FALSE stands for UnicodeDecodeError.           *)
(***************************************************************************)
CodePoint(c) == AsciiCodes[Ord(c)]

\* chr(n): the character of the alphabet, or the token of code point n.
Chr(n) ==
    IF \E i \in 1..Len(AsciiCodes) : AsciiCodes[i] = n
    THEN Ascii[CHOOSE i \in 1..Len(AsciiCodes) : AsciiCodes[i] = n]
    ELSE "U+" \o ToString(n)

\* text.encode("ascii")
Encode(text) == [i \in 1..Len(text) |-> CodePoint(text[i])]

Failed == [ok |-> FALSE, text |-> <<>>]

IsCont(b) == b >= 128 /\ b <= 191

\* The length of the UTF-8 sequence that starts bs, 0 when bs starts with none.
Utf8SeqLen(bs) ==
    LET b0 == bs[1]
        b1 == bs[2]
        n  == Len(bs)
    IN  IF b0 < 128 THEN 1
        ELSE IF b0 >= 194 /\ b0 <= 223
             THEN IF n >= 2 /\ IsCont(b1) THEN 2 ELSE 0
        ELSE IF b0 >= 224 /\ b0 <= 239
             THEN IF /\ n >= 3 /\ IsCont(b1) /\ IsCont(bs[3])
                     /\ (b0 = 224 => b1 >= 160)
                     /\ (b0 = 237 => b1 <= 159)
                  THEN 3 ELSE 0
        ELSE IF b0 >= 240 /\ b0 <= 244
             THEN IF /\ n >= 4 /\ IsCont(b1) /\ IsCont(bs[3]) /\ IsCont(bs[4])
                     /\ (b0 = 240 => b1 >= 144)
                     /\ (b0 = 244 => b1 <= 143)
                  THEN 4 ELSE 0
        ELSE 0

Utf8CodePoint(bs, k) ==
    IF k = 1 THEN bs[1]
    ELSE IF k = 2 THEN (bs[1] - 192) * 64 + (bs[2] - 128)
    ELSE IF k = 3 THEN (bs[1] - 224) * 4096 + (bs[2] - 128) * 64 + (bs[3] - 128)
    ELSE (bs[1] - 240) * 262144 + (bs[2] - 128) * 4096 + (bs[3] - 128) * 64 + (bs[4] - 128)

\* bs.decode("utf-8"): the ASCII bytes up to the first byte >= 0x80 decode to
\* themselves, then one multi-byte sequence, then the rest.
RECURSIVE DecodeUtf8(_)
DecodeUtf8(bs) ==
    IF \A i \in 1..Len(bs) : bs[i] < 128
    THEN [ok |-> TRUE, text |-> [i \in 1..Len(bs) |-> Chr(bs[i])]]
    ELSE LET i    == CHOOSE k \in 1..Len(bs) : bs[k] >= 128 /\ \A m \in 1..(k - 1) : bs[m] < 128
             seq  == SubSeq(bs, i, Len(bs))
             k    == Utf8SeqLen(seq)
             rest == DecodeUtf8(SubSeq(bs, i + k, Len(bs)))
         IN  IF k = 0 \/ ~rest.ok THEN Failed
             ELSE [ok |-> TRUE,
                   text |-> [j \in 1..(i - 1) |-> Chr(bs[j])]
                                \o <<Chr(Utf8CodePoint(seq, k))>> \o rest.text]

Utf8Bom == <<239, 187, 191>>

\* bs.decode("utf-8-sig"): UTF-8 after a leading byte-order mark, if any, is dropped
DecodeUtf8Sig(bs) ==
    IF Len(bs) >= 3 /\ SubSeq(bs, 1, 3) = Utf8Bom
    THEN DecodeUtf8(SubSeq(bs, 4, Len(bs)))
    ELSE DecodeUtf8(bs)

\* cp1252 of the bytes 0x80..0x9F; the five bytes it leaves undefined map to 0.
Cp1252High ==
    <<8364, 0, 8218, 402, 8222, 8230, 8224, 8225, 710, 8240, 352, 8249, 338, 0, 381, 0,
      0, 8216, 8217, 8220, 8221, 8226, 8211, 8212, 732, 8482, 353, 8250, 339, 0, 382, 376>>

Cp1252CodePoint(b) == IF b >= 128 /\ b <= 159 THEN Cp1252High[b - 127] ELSE b

\* bs.decode("cp1252")
DecodeCp1252(bs) ==
    IF \E i \in 1..Len(bs) : Cp1252CodePoint(bs[i]) = 0 /\ bs[i] # 0
    THEN Failed
    ELSE [ok |-> TRUE, text |-> [i \in 1..Len(bs) |-> Chr(Cp1252CodePoint(bs[i]))]]

\* bs.decode("latin-1"): every byte is its own code point
DecodeLatin1(bs) == [ok |-> TRUE, text |-> [i \in 1..Len(bs) |-> Chr(bs[i])]]

\* The newline translation of a file read in text mode: "\r\n" and "\r" are "\n".
RECURSIVE UniversalNewlines(_)
UniversalNewlines(text) ==
    IF \A i \in 1..Len(text) : text[i] # "\r" THEN text
    ELSE LET i == CHOOSE k \in 1..Len(text) :
                      text[k] = "\r" /\ \A m \in 1..(k - 1) : text[m] # "\r"
             after == IF i < Len(text) /\ text[i + 1] = "\n" THEN i + 2 ELSE i + 1
         IN  SubSeq(text, 1, i - 1) \o <<"\n">>
                 \o UniversalNewlines(SubSeq(text, after, Len(text)))

\* path.read_text(encoding=...) with the given decoder's result
ReadText(decoded) ==
    IF decoded.ok THEN [ok |-> TRUE, text |-> UniversalNewlines(decoded.text)] ELSE Failed

\* The result of the first decoder of the sequence that succeeds, Failed when none does.
RECURSIVE FirstDecoded(_, _)
FirstDecoded(bs, encodings) ==
    IF encodings = <<>> THEN Failed
    ELSE Let(IF Head(encodings) = "utf-8-sig" THEN DecodeUtf8Sig(bs)
             ELSE IF Head(encodings) = "cp1252" THEN DecodeCp1252(bs)
             ELSE DecodeLatin1(bs),
             LAMBDA decoded : IF decoded.ok THEN ReadText(decoded)
                              ELSE FirstDecoded(bs, Tail(encodings)))

\* read_text_with_fallback(path), of the bytes of the file at path: the three
\* encodings in turn and then, had all three failed, utf-8-sig again.
read_text_with_fallback(bs) ==
    FirstDecoded(bs, <<"utf-8-sig", "cp1252", "latin-1", "utf-8-sig">>)

(***************************************************************************)
(* Lines and rows of a text.  The texts of the model have no field that    *)
(* starts with a double quote, so csv.reader yields, for each line, [] if  *)
(* the line is empty and line.split(",") otherwise.                        *)
(***************************************************************************)
\* s.split(sep), sep a character
RECURSIVE SplitOn(_, _)
SplitOn(s, sep) ==
    IF \E i \in 1..Len(s) : s[i] = sep
    THEN LET i == CHOOSE k \in 1..Len(s) : s[k] = sep /\ \A m \in 1..(k - 1) : s[m] # sep
         IN  <<SubSeq(s, 1, i - 1)>> \o SplitOn(SubSeq(s, i + 1, Len(s)), sep)
    ELSE <<s>>

\* The lines of a text, without their line ends.
Lines(text) ==
    LET t == UniversalNewlines(text)
    IN  IF t = <<>> THEN <<>>
        ELSE IF t[Len(t)] = "\n" THEN SplitOn(SubSeq(t, 1, Len(t) - 1), "\n")
        ELSE SplitOn(t, "\n")

\* list(csv.reader(io.StringIO(text, newline="")))
CsvRows(text) ==
    LET ls == Lines(text)
    IN  [i \in 1..Len(ls) |-> IF ls[i] = <<>> THEN <<>> ELSE SplitOn(ls[i], ",")]

(***************************************************************************)
(* The extractors and convert_file, of the bytes of a whole input file.    *)
(* Each returns [raised, wrote, rows]: the exception it ends with ("none"  *)
(* when it returns), whether it wrote output_path, and the rows written.   *)
(***************************************************************************)
RECURSIVE FoldCsvStyle(_, _)
FoldCsvStyle(st, rows) ==
    IF rows = <<>> THEN st ELSE FoldCsvStyle(csv_style_row(st, Head(rows)), Tail(rows))

RECURSIVE FoldPipeStyle(_, _)
FoldPipeStyle(out, ls) ==
    IF ls = <<>> THEN out
    ELSE FoldPipeStyle(pipe_style_line(out, SplitOn(Head(ls), "|")), Tail(ls))

RECURSIVE FoldModern(_, _, _)
FoldModern(out, names, rows) ==
    IF rows = <<>> THEN out ELSE FoldModern(modern_row(out, names, Head(rows)), names, Tail(rows))

Raises(e)  == [raised |-> e, wrote |-> FALSE, rows |-> <<>>]
Writes(rs) == [raised |-> "none", wrote |-> TRUE, rows |-> rs]

convert_csv_style_file(bs) ==
    Let(read_text_with_fallback(bs),
        LAMBDA read :
            IF ~read.ok THEN Raises("UnicodeDecodeError")
            ELSE Writes(FoldCsvStyle([office |-> None, candidates |-> <<>>, rows_out |-> <<>>],
                                     CsvRows(read.text)).rows_out))

\* input_path.open("r", encoding="utf-8-sig", newline=""): no fallback.  The lines
\* keep their line ends, which line.rstrip and the strip of each field remove.
convert_pipe_style_file(bs) ==
    Let(DecodeUtf8Sig(bs),
        LAMBDA read :
            IF ~read.ok THEN Raises("UnicodeDecodeError")
            ELSE Writes(FoldPipeStyle(<<>>, Lines(read.text))))

\* reader.fieldnames is the first row; with none, or an empty one, the function
\* returns 0 before it writes.
convert_modern_precinct_csv(bs) ==
    Let(read_text_with_fallback(bs),
        LAMBDA read :
            IF ~read.ok THEN Raises("UnicodeDecodeError")
            ELSE Let(CsvRows(read.text),
                     LAMBDA rows :
                         IF rows = <<>> \/ Head(rows) = <<>>
                         THEN [raised |-> "none", wrote |-> FALSE, rows |-> <<>>]
                         ELSE Writes(FoldModern(<<>>, Head(rows), Tail(rows)))))

\* detect_csv_format: [raised, format]
detect_csv_format(bs) ==
    Let(read_text_with_fallback(bs),
        LAMBDA read :
            IF ~read.ok THEN [raised |-> "UnicodeDecodeError", format |-> "none"]
            ELSE Let(CsvRows(read.text),
                     LAMBDA rows :
                         LET header     == IF rows = <<>> THEN <<>> ELSE Head(rows)
                             normalized == {StripQuotes(Strip(header[i])) : i \in 1..Len(header)}
                         IN  IF <<"C","a","n","d","i","d","a","t","e"," ","N","a","m","e">> \in normalized /\ <<"O","f","f","i","c","e"," ","N","a","m","e">> \in normalized
                             THEN [raised |-> "none", format |-> "modern"]
                             ELSE [raised |-> "none", format |-> "legacy"]))

\* PurePath.suffix of a file name
Suffix(name) ==
    LET dots == {i \in 1..Len(name) : name[i] = "."}
        i    == CHOOSE k \in dots : \A m \in dots : m <= k
    IN  IF dots # {} /\ 1 < i /\ i < Len(name) THEN SubSeq(name, i, Len(name)) ELSE <<>>

\* A variant of convert_file that compares the suffix as it is written, without
\* lower-casing it.
convert_file_suffix_as_written(file) ==
    IF Suffix(file.name) = <<".","t","x","t">>
    THEN [extractors |-> <<"pipe">>, result |-> convert_pipe_style_file(file.bytes)]
    ELSE Let(detect_csv_format(file.bytes),
             LAMBDA detected :
                 IF detected.raised # "none"
                 THEN [extractors |-> <<>>, result |-> Raises(detected.raised)]
                 ELSE IF detected.format = "modern"
                 THEN [extractors |-> <<"modern">>,
                       result |-> convert_modern_precinct_csv(file.bytes)]
                 ELSE [extractors |-> <<"legacy">>,
                       result |-> convert_csv_style_file(file.bytes)])

\* convert_file: the extractors it ran, in order, and the result of the last
convert_file(file) ==
    IF Lower(Suffix(file.name)) = <<".","t","x","t">>
    THEN [extractors |-> <<"pipe">>, result |-> convert_pipe_style_file(file.bytes)]
    ELSE Let(detect_csv_format(file.bytes),
             LAMBDA detected :
                 IF detected.raised # "none"
                 THEN [extractors |-> <<>>, result |-> Raises(detected.raised)]
                 ELSE IF detected.format = "modern"
                 THEN [extractors |-> <<"modern">>,
                       result |-> convert_modern_precinct_csv(file.bytes)]
                 ELSE [extractors |-> <<"legacy">>,
                       result |-> convert_csv_style_file(file.bytes)])

(***************************************************************************)
(* build_output_name and main.                                             *)
(***************************************************************************)
\* re.match(r"^(\d{4})\s+General\s+Election\.(csv|txt)$", name, flags=re.I):
\* [ok, year]; "$" also matches before a final line break.
MatchInputName(name) ==
    LET rest1 == SubSeq(name, 5, Len(name))
        rest2 == LStrip(rest1, Whitespace)
        rest3 == SubSeq(rest2, 8, Len(rest2))
        rest4 == LStrip(rest3, Whitespace)
        tail  == Lower(rest4)
    IN  IF /\ Len(name) >= 4
           /\ \A i \in 1..4 : name[i] \in Digits
           /\ Len(rest2) < Len(rest1)
           /\ StartsWith(Lower(rest2), <<"g","e","n","e","r","a","l">>)
           /\ Len(rest4) < Len(rest3)
           /\ \E ext \in {<<"c","s","v">>, <<"t","x","t">>} :
                  tail = <<"e","l","e","c","t","i","o","n",".">> \o ext \/ tail = <<"e","l","e","c","t","i","o","n",".">> \o ext \o <<"\n">>
        THEN [ok |-> TRUE, year |-> DigitsValue(SubSeq(name, 1, 4), 0)]
        ELSE [ok |-> FALSE, year |-> 0]

\* A variant of build_output_name that names the output after the year itself when
\* the table has no date for it.
build_output_name_defaulting(input_name) ==
    LET m         == MatchInputName(input_name)
        date_part == TableGet(YEAR_TO_ELECTION_DATE, m.year, SubSeq(input_name, 1, 4))
    IN  IF ~m.ok THEN [ok |-> FALSE, name |-> <<>>]
        ELSE IF date_part = <<>> THEN [ok |-> FALSE, name |-> <<>>]
        ELSE [ok |-> TRUE, name |-> date_part \o <<"_","_","m","d","_","_","g","e","n","e","r","a","l","_","_","c","o","u","n","t","y",".","c","s","v">>]

\* build_output_name(input_name): [ok, name]; ok = FALSE stands for ValueError.
build_output_name(input_name) ==
    LET m         == MatchInputName(input_name)
        date_part == TableGet(YEAR_TO_ELECTION_DATE, m.year, <<>>)
    IN  IF ~m.ok THEN [ok |-> FALSE, name |-> <<>>]
        ELSE IF date_part = <<>> THEN [ok |-> FALSE, name |-> <<>>]
        ELSE [ok |-> TRUE, name |-> date_part \o <<"_","_","m","d","_","_","g","e","n","e","r","a","l","_","_","c","o","u","n","t","y",".","c","s","v">>]

\* sorted(paths), of files of one directory: by name
RECURSIVE SortedByName(_)
SortedByName(files) ==
    IF files = {} THEN <<>>
    ELSE LET f == CHOOSE x \in files : \A y \in files : y = x \/ StrLess(x.name, y.name)
         IN  <<f>> \o SortedByName(files \ {f})

\* The file names and the file contents of the model.
FileNames ==
    { <<"1","9","8","6"," ","G","e","n","e","r","a","l"," ","E","l","e","c","t","i","o","n",".","c","s","v">>, <<"1","9","8","6"," ","g","e","n","e","r","a","l"," "," ","e","l","e","c","t","i","o","n",".","T","X","T">>,
      <<"2","0","0","4"," ","G","e","n","e","r","a","l"," ","E","l","e","c","t","i","o","n",".","c","s","v">>, <<"2","0","1","2"," ","G","e","n","e","r","a","l"," ","E","l","e","c","t","i","o","n",".","t","x","t">>,
      <<"n","o","t","e","s"," ","o","n"," ","1","9","8","6",".","c","s","v">> }

LegacyText == <<"G","o","v","e","r","n","o","r"," ","-"," ","V","o","t","e"," ","F","o","r"," ","O","n","e","\n",",","A","l","i","c","e"," ","(","D","E","M",")","\n","K","e","n","t"," ","C","o","u","n","t","y",",","1","2","0","\n">>
ModernText == <<"C","a","n","d","i","d","a","t","e"," ","N","a","m","e",","," ","O","f","f","i","c","e"," ","N","a","m","e"," ",",","E","a","r","l","y"," ","V","o","t","e","s","\n","A","l","i","c","e",",","G","o","v","e","r","n","o","r",",","5","\n">>
PipeText   == <<"G","o","v","e","r","n","o","r","|","1","|","K","e","n","t","|","D","o","e","|","|","J","a","n","e","|","D","E","M","|","1","|","0","|","1","2","0","\n">>

FileContents ==
    { Encode(LegacyText),
      Encode(ModernText),
      Encode(PipeText),
      <<>>,
      Utf8Bom \o Encode(ModernText),
      Encode(LegacyText) \o <<74, 111, 115, 233, 10>>,        \* "Jos", 0xE9: not UTF-8
      Encode(PipeText) \o <<129, 10>>,                        \* 0x81: neither UTF-8 nor cp1252
      Encode(PipeText) \o <<74, 111, 115, 195, 169, 10>> }    \* "Jos", 0xC3 0xA9: UTF-8

InputFiles == [name : FileNames, bytes : FileContents]

\* The data directories: at most n files, no two of one name.
RECURSIVE DirectoriesUpTo(_)
DirectoriesUpTo(n) ==
    IF n = 0 THEN {{}}
    ELSE LET smaller == DirectoriesUpTo(n - 1)
         IN  smaller \cup
             {p[1] \cup {p[2]} :
                 p \in {q \in smaller \X InputFiles : \A g \in q[1] : g.name # q[2].name}}

MainInit ==
    /\ data_dir \in DirectoriesUpTo(MaxFiles)
    /\ input_paths = <<>>
    /\ outputs = <<>>
    /\ pc = "scan"
    /\ raised = "none"
    /\ ran = <<>>
    /\ raw = <<>> /\ county = NoCounty
    /\ fmt = "none" /\ fieldnames = <<>> /\ office = None /\ candidates = <<>>
    /\ rows_out = <<>> /\ consumed = <<>>

\* input_paths = sorted(p for p in data_dir.iterdir() if p.is_file() and re.match(...))
ScanDataDir ==
    /\ pc = "scan"
    /\ input_paths' = SortedByName({f \in data_dir : MatchInputName(f.name).ok})
    /\ pc' = "loop"
    /\ UNCHANGED <<data_dir, outputs, raised, ran, countyVars, extractVars>>

\* One iteration of the loop of main over input_paths: build_output_name, which may
\* raise, then convert_file, which may raise, then the next file.
ConvertNext ==
    /\ pc = "loop" /\ input_paths # <<>>
    /\ \E input_path \in {Head(input_paths)} :
       \E output_name \in {build_output_name(input_path.name)} :
           IF ~output_name.ok
           THEN /\ pc' = "raised" /\ raised' = "ValueError"
                /\ UNCHANGED <<input_paths, outputs, ran>>
           ELSE \E converted \in {convert_file(input_path)} :
                /\ ran' = Append(ran, [file |-> input_path,
                                       extractors |-> converted.extractors])
                /\ IF converted.result.raised # "none"
                   THEN /\ pc' = "raised" /\ raised' = converted.result.raised
                        /\ UNCHANGED <<input_paths, outputs>>
                   ELSE /\ outputs' = IF converted.result.wrote
                                      THEN (output_name.name :> converted.result.rows) @@ outputs
                                      ELSE outputs
                        /\ input_paths' = Tail(input_paths)
                        /\ UNCHANGED <<pc, raised>>
    /\ UNCHANGED <<data_dir, countyVars, extractVars>>

\* The loop is over: main returns.
MainReturns ==
    /\ pc = "loop" /\ input_paths = <<>>
    /\ pc' = "done"
    /\ UNCHANGED <<data_dir, input_paths, outputs, raised, ran, countyVars, extractVars>>

Init == MainInit

Next == ScanDataDir \/ ConvertNext \/ MainReturns

Spec == Init /\ [][Next]_vars


(***************************************************************************)
(* The properties checked.  The row an extractor read in a step is the     *)
(* last row of consumed', and the rows it emitted in the step are those    *)
(* rows_out' has after rows_out.                                           *)
(***************************************************************************)
Last(s) == s[Len(s)]

EmittedInStep == SubSeq(rows_out', Len(rows_out) + 1, Len(rows_out'))

\* A vote cell that is blank or non-numeric: once blanks, quotes and thousands
\* separators are off, nothing is left or int() rejects it.
VoteCellUnparsed(cell) ==
    LET t == RemoveCommas(StripQuotes(Strip(cell)))
    IN  t = <<>> \/ ~PyInt(t).ok

\* The integer value of a vote cell, 0 for one that is blank or non-numeric.
VoteCellValue(cell) ==
    IF VoteCellUnparsed(cell) THEN 0 ELSE PyInt(RemoveCommas(StripQuotes(Strip(cell)))).val

\* A header column of the modern format that counts votes.
IsVoteColumn(name) == Contains(name, <<"V","o","t","e","s">>) /\ ~Contains(name, <<"A","g","a","i","n","s","t">>)

\* A str that starts and ends with a double quote.
Wrapped(s) == s # <<>> /\ Head(s) = "\"" /\ Last(s) = "\""

\* The first cell of a CSV row, without blanks and quotes; and the kinds of row
\* of the pivoted format.
FirstCell(row) == IF row = <<>> THEN <<>> ELSE Strip(StripQuotes(Strip(row[1])))

AllBlank(row) == \A i \in 1..Len(row) : Strip(row[i]) = <<>>

IsMarkerRow(row) ==
    /\ ~AllBlank(row)
    /\ FirstCell(row) # <<>>
    /\ \E m \in VoteForMarkers : Contains(FirstCell(row), m)
    /\ Cardinality({i \in 2..Len(row) : Strip(row[i]) # <<>>}) <= 1

IsHeaderShaped(row) == ~AllBlank(row) /\ FirstCell(row) = <<>>

\* The last row of rows that P holds of, <<>> when there is none.
LastRowThat(rows, P(_)) ==
    LET idx == {i \in 1..Len(rows) : P(rows[i])}
    IN  IF idx = {} THEN <<>> ELSE rows[CHOOSE i \in idx : \A j \in idx : j <= i]

\* C1: for each of the three extractors and every sequence of input rows, every
\* emitted row's votes is an integer greater than or equal to zero; a vote cell
\* with a leading minus sign never leads to a row with negative votes.
C1_VotesNonNegative == \A i \in 1..Len(rows_out) : rows_out[i].votes \in Nat

\* C2: in all three extractors a row whose vote cells are all blank or non-numeric
\* produces no output row: a pivoted row with no parsable vote cell, a pipe line
\* whose vote field is blank or non-numeric, and a modern row whose vote columns
\* are all blank or non-numeric each leave the emitted rows as they were.
C2_UnparsedVotesDropped ==
    [][ consumed' # consumed =>
          LET row == Last(consumed')
              unparsed ==
                  CASE fmt = "legacy" -> \A i \in 2..Len(row) : VoteCellUnparsed(row[i])
                    [] fmt = "pipe"   -> Len(row) >= 10 /\ VoteCellUnparsed(row[10])
                    [] fmt = "modern" ->
                           \A i \in 1..Len(fieldnames) :
                               IsVoteColumn(fieldnames[i]) =>
                                   (i > Len(row) \/ VoteCellUnparsed(row[i]))
                    [] OTHER -> FALSE
          IN  unparsed => rows_out' = rows_out ]_vars

\* C3: decoding never aborts a conversion: whatever the extension and the bytes of
\* an input file, main never ends with a decoding error.
C3_DecodingNeverRaises == raised # "UnicodeDecodeError"

\* C4: normalize_county is idempotent: applied to its own result it returns that
\* result, also for repeated suffixes, nested quotes and grave accents.
C4_Idempotent == county.applied = 2 => county.twice = county.once

\* The pairs (candidate, votes) a county row gives when every candidate is paired
\* with the vote cell of the column of its own header cell, from column j on.
RECURSIVE AlignedPairs(_, _, _)
AlignedPairs(header, row, j) ==
    IF j > Len(header) THEN <<>>
    ELSE LET cell == Strip(header[j])
             p    == parse_candidate(cell)
             here == IF /\ cell # <<>> /\ p.candidate # <<>>
                        /\ j <= Len(row) /\ ~VoteCellUnparsed(row[j])
                     THEN << <<p.candidate, VoteCellValue(row[j])>> >>
                     ELSE <<>>
         IN  here \o AlignedPairs(header, row, j + 1)

\* C5: in the pivoted-legacy extractor the rows a county row emits pair each
\* candidate with the vote cell in the column of that candidate's header cell in
\* the most recent header row, also when empty cells or cells with an empty
\* candidate name lie between or before the candidate header cells.
C5_ColumnAligned ==
    [][ (fmt = "legacy" /\ rows_out' # rows_out) =>
          [i \in 1..Len(EmittedInStep) |->
              <<EmittedInStep[i].candidate, EmittedInStep[i].votes>>]
            = AlignedPairs(LastRowThat(consumed, IsHeaderShaped), Last(consumed'), 2) ]_vars

\* The Governor block of the example: marker row, header row, county row.
GovernorBlock ==
    << <<<<"G","o","v","e","r","n","o","r"," ","-"," ","V","o","t","e"," ","F","o","r"," ","O","n","e">>>>,
       <<<<>>, <<"A","l","i","c","e"," ","(","D","E","M",")">>, <<"B","o","b"," ","(","R","E","P",")"," ","W","i","n","n","e","r">>>>,
       <<<<"S","o","m","e","r","s","e","t"," ","C","o","u","n","t","y">>, <<"1","2","0">>, <<"8","0">>>> >>

\* C6: in the pivoted-legacy extractor office starts unset and only a marker row
\* sets it; a marker row clears the candidates and a header row (empty first cell
\* while an office is set) replaces them, and no other row changes them; a row
\* emits only if its first cell is non-blank, an office is set and the candidates
\* are non-empty, and what it emits carries the office of the most recent marker
\* row; blank rows and rows with a blank first cell emit nothing; and the Governor
\* block gives exactly (Somerset, Governor, DEM, Alice, 120, "") and (Somerset,
\* Governor, REP, Bob, 80, "TRUE").
C6_OfficeAndCandidatesState ==
    [][ (fmt = "legacy" /\ consumed' # consumed) =>
          LET row    == Last(consumed')
              marker == IsMarkerRow(row)
              header == IsHeaderShaped(row) /\ Truthy(office)
          IN  /\ consumed = <<>> => office = None
              /\ office' # office => marker
              /\ marker => /\ office' = Str(normalize_office(FirstCell(row)))
                           /\ candidates' = <<>>
              /\ header => candidates' = header_candidates(Tail(row))
              /\ (~marker /\ ~header) => candidates' = candidates
              /\ rows_out' # rows_out =>
                     /\ FirstCell(row) # <<>> /\ Truthy(office) /\ candidates # <<>>
                     /\ \A i \in 1..Len(EmittedInStep) :
                            EmittedInStep[i].office =
                                normalize_office(FirstCell(LastRowThat(consumed, IsMarkerRow)))
              /\ rows_out = SubSeq(rows_out', 1, Len(rows_out))
              /\ (AllBlank(row) \/ FirstCell(row) = <<>>) => rows_out' = rows_out
              /\ consumed' = GovernorBlock =>
                     rows_out' = << OutRow(<<"S","o","m","e","r","s","e","t">>, <<>>, <<"G","o","v","e","r","n","o","r">>, <<>>,
                                           <<"D","E","M">>, <<"A","l","i","c","e">>, 120, <<>>),
                                    OutRow(<<"S","o","m","e","r","s","e","t">>, <<>>, <<"G","o","v","e","r","n","o","r">>, <<>>,
                                           <<"R","E","P">>, <<"B","o","b">>, 80, <<"T","R","U","E">>) >> ]_vars

\* The extractor has read the Governor block and emitted its two rows.
C6_GovernorBlockRead ==
    fmt = "legacy" /\ consumed = GovernorBlock /\ Len(rows_out) = 2 /\ pc = "written"

\* The extractor the detection rule gives a file: pipe for a name ending in .txt
\* in any case, modern for another file whose first CSV row holds both column
\* names once blanks and quotes are off its cells, pivoted-legacy for the rest.
ExpectedExtractor(file) ==
    IF EndsWith(Lower(file.name), <<".","t","x","t">>) THEN "pipe"
    ELSE LET rows  == CsvRows(read_text_with_fallback(file.bytes).text)
             first == IF rows = <<>> THEN <<>> ELSE rows[1]
             has(name) == \E i \in 1..Len(first) : StripQuotes(Strip(first[i])) = name
         IN  IF has(<<"C","a","n","d","i","d","a","t","e"," ","N","a","m","e">>) /\ has(<<"O","f","f","i","c","e"," ","N","a","m","e">>) THEN "modern" ELSE "legacy"

\* C7: convert_file runs exactly one extractor per file: the pipe extractor for
\* every .txt input (case-insensitive) whatever its content, the modern extractor
\* for every other input whose first CSV row, trimmed of blanks and quotes, holds
\* both "Candidate Name" and "Office Name", and the pivoted-legacy extractor for
\* every other input, an empty file included.
C7_OneExtractorByFormat ==
    \A i \in 1..Len(ran) : ran[i].extractors = <<ExpectedExtractor(ran[i].file)>>

\* A .csv file with a BOM before the modern header went to the modern extractor, and
\* then a .TXT file holding that modern CSV text went to the pipe extractor.
C7_ModernThenPipe ==
    /\ Len(ran) = 2
    /\ ran[1].extractors = <<"modern">> /\ ran[1].file.bytes = Utf8Bom \o Encode(ModernText)
    /\ ran[2].extractors = <<"pipe">>   /\ ran[2].file.bytes = Encode(ModernText)
    /\ pc = "done"

\* C8: in the modern extractor an emitted row's votes is the sum, over every header
\* column whose name contains "Votes" and not "Against", of the integer value of
\* that column's cell in the row, a cell that does not parse counting 0.
RECURSIVE ColumnSum(_, _, _)
ColumnSum(names, row, i) ==
    IF i > Len(names) THEN 0
    ELSE (IF IsVoteColumn(names[i]) /\ i <= Len(row) THEN VoteCellValue(row[i]) ELSE 0)
             + ColumnSum(names, row, i + 1)

C8_VotesAreColumnSum ==
    [][ (fmt = "modern" /\ rows_out' # rows_out) =>
          Last(rows_out').votes = ColumnSum(fieldnames, Last(consumed'), 1) ]_vars

\* C9: no emitted row of any extractor has a county, an office or a candidate
\* that starts and ends with a double quote.
C9_NeverQuoteWrapped ==
    \A i \in 1..Len(rows_out) :
        ~Wrapped(rows_out[i].county) /\ ~Wrapped(rows_out[i].office)
            /\ ~Wrapped(rows_out[i].candidate)

\* A file name build_output_name has no output name for: it does not match the
\* pattern of input names, or the table has no date for its year.
Unnameable(name) ==
    LET m     == MatchInputName(name)
        years == {YEAR_TO_ELECTION_DATE[i][1] : i \in 1..Len(YEAR_TO_ELECTION_DATE)}
    IN  ~m.ok \/ m.year \notin years

\* C10: build_output_name raises for every file name that does not match the
\* pattern or whose year has no date, and in the loop of main the step of such a
\* file ends main with that ValueError before the file's conversion starts: no
\* extractor runs on it, no output file is created or overwritten, and the loop
\* does not go on to the next file.
C10_UnnameableFileIsFatal ==
    [][ /\ \A f \in data_dir : Unnameable(f.name) => ~build_output_name(f.name).ok
        /\ (pc = "loop" /\ input_paths # <<>> /\ Unnameable(Head(input_paths).name)) =>
               /\ pc' = "raised" /\ raised' = "ValueError"
               /\ outputs' = outputs /\ ran' = ran /\ input_paths' = input_paths ]_vars

\* main converted a first file and wrote its output, then raised ValueError on the
\* next one, the file of a year without a date.
C10_RaisedAfterFirstFile ==
    /\ pc = "raised" /\ raised = "ValueError"
    /\ Len(ran) = 1 /\ DOMAIN outputs # {}
    /\ Unnameable(Head(input_paths).name)

====
